---- MODULE Spec2Model ----
(***************************************************************************)
(* Model of the metric-scoring pipeline of                                 *)
(* eval-algos/core/models/onchain_builders.py (OnchainBuildersCalculator). *)
(*                                                                         *)
(* Numbers.  A float is modelled by an exact rational <<n, d>> in lowest   *)
(* terms with d > 0; NaN (pandas' null) is <<0, 0>>.  A project score is   *)
(* the p = 2 root of a non-negative rational and is kept by its square     *)
(* (field sq), so that no rounding enters the model.                       *)
(*                                                                         *)
(* Strings.  A Python str is a sequence of one-character strings, so that  *)
(* lower(), upper(), replace() and the `in` substring test are computed.   *)
(***************************************************************************)
EXTENDS Integers, Sequences, FiniteSets, TLC

\* ------------------------------------------------------------------------
\* Bounds of the explored inputs
\* ------------------------------------------------------------------------
NumProjects == 2
MaxAmount == 1
MaxRuns == 2
MaxTvlMaximum == 2
MaxColLen == 3
MaxColVal == 3
MaxTvlMinimum == 2
MaxCell == 2
MaxWeight == 2

\* ------------------------------------------------------------------------
\* Floats as exact rationals, NaN as <<0, 0>>
\* ------------------------------------------------------------------------
Null == <<0, 0>>
IsNull(x) == x[2] = 0
NotNull(x) == x[2] # 0

Abs(n) == IF n < 0 THEN 0 - n ELSE n

RECURSIVE Gcd(_, _)
Gcd(a, b) == IF b = 0 THEN a ELSE Gcd(b, a % b)

Norm(n, d) ==
    IF n = 0 THEN <<0, 1>>
    ELSE LET g == Gcd(Abs(n), d) IN <<n \div g, d \div g>>

R(n) == <<n, 1>>
Zero == <<0, 1>>
One == <<1, 1>>

RAdd(x, y) == IF IsNull(x) \/ IsNull(y) THEN Null
              ELSE Norm(x[1] * y[2] + y[1] * x[2], x[2] * y[2])
RSub(x, y) == IF IsNull(x) \/ IsNull(y) THEN Null
              ELSE Norm(x[1] * y[2] - y[1] * x[2], x[2] * y[2])
RMul(x, y) == IF IsNull(x) \/ IsNull(y) THEN Null
              ELSE Norm(x[1] * y[1], x[2] * y[2])
\* x / y; both call sites guard y # 0, and 0/0 is NaN
RDiv(x, y) == IF IsNull(x) \/ IsNull(y) \/ y[1] = 0 THEN Null
              ELSE IF y[1] > 0 THEN Norm(x[1] * y[2], x[2] * y[1])
              ELSE Norm((0 - x[1]) * y[2], x[2] * (0 - y[1]))
\* IEEE comparisons: every comparison with NaN is False
RLt(x, y) == NotNull(x) /\ NotNull(y) /\ x[1] * y[2] < y[1] * x[2]
RLe(x, y) == NotNull(x) /\ NotNull(y) /\ x[1] * y[2] <= y[1] * x[2]
REq(x, y) == NotNull(x) /\ NotNull(y) /\ x[1] * y[2] = y[1] * x[2]
RMin2(x, y) == IF RLt(y, x) THEN y ELSE x
RMax2(x, y) == IF RLt(x, y) THEN y ELSE x

\* ------------------------------------------------------------------------
\* Python str operations on sequences of characters
\* ------------------------------------------------------------------------
LowerChar(c) == CASE c = "B" -> "b" [] c = "T" -> "t" [] c = "V" -> "v"
                  [] c = "L" -> "l" [] c = "J" -> "j" [] c = "M" -> "m"
                  [] OTHER -> c
UpperChar(c) == CASE c = "b" -> "B" [] c = "t" -> "T" [] c = "v" -> "V"
                  [] c = "l" -> "L" [] c = "j" -> "J" [] c = "m" -> "M"
                  [] c = "g" -> "G" [] c = "o" -> "O" [] c = "p" -> "P"
                  [] OTHER -> c
lower(s) == [i \in 1..Len(s) |-> LowerChar(s[i])]
upper(s) == [i \in 1..Len(s) |-> UpperChar(s[i])]
\* s.replace(' ', '_')
replace_space(s) == [i \in 1..Len(s) |-> IF s[i] = " " THEN "_" ELSE s[i]]
\* sub in s
Contains(s, sub) ==
    \E i \in 0..(Len(s) - Len(sub)) :
        \A j \in 1..Len(sub) : s[i + j] = sub[j]

\* 'tvl' in metric.lower()
IsTvlName(metric) == Contains(lower(metric), <<"t", "v", "l">>)

\* ------------------------------------------------------------------------
\* Names used by the configuration (Python str values)
\* ------------------------------------------------------------------------
adoption == <<"a", "d", "o", "p", "t", "i", "o", "n">>
growth == <<"g", "r", "o", "w", "t", "h">>
retention == <<"r", "e", "t", "e", "n", "t", "i", "o", "n">>
\* the keys of SimulationConfig.periods
PeriodKeys == {<<"c", "u", "r", "r", "e", "n", "t">>,
               <<"p", "r", "e", "v", "i", "o", "u", "s">>}

\* keys of a dict kept as a sequence of [name, weight] items (insertion order)
Keys(d) == {d[i].name : i \in 1..Len(d)}
\* d[k] for a key k of d
Get(d, k) == LET i == CHOOSE j \in 1..Len(d) : d[j].name = k IN d[i].weight

\* ------------------------------------------------------------------------
\* Series helpers
\* ------------------------------------------------------------------------
\* Series.sum() / DataFrame.sum(): skipna=True, the empty sum is 0
RECURSIVE SumSkipna(_)
SumSkipna(s) ==
    IF Len(s) = 0 THEN Zero
    ELSE IF IsNull(Head(s)) THEN SumSkipna(Tail(s))
    ELSE RAdd(Head(s), SumSkipna(Tail(s)))

\* a set of integers as an ascending sequence (groupby sorts its keys)
RECURSIVE SortedSeq(_)
SortedSeq(S) ==
    IF S = {} THEN <<>>
    ELSE LET m == CHOOSE x \in S : \A y \in S : x <= y
         IN <<m>> \o SortedSeq(S \ {m})

\* a set as a sequence in some fixed order
RECURSIVE SetToSeq(_)
SetToSeq(S) ==
    IF S = {} THEN <<>>
    ELSE LET m == CHOOSE x \in S : TRUE IN <<m>> \o SetToSeq(S \ {m})

Range(s) == {s[i] : i \in 1..Len(s)}

\* a function written out as an explicit table of its values
Eval(f) == f @@ f

EmptyFrame == [index |-> <<>>, columns |-> {}, val |-> <<>>]

\* an exception is <<class, message>> or <<class, message, argument>>; <<>>
\* stands for no exception
NoError == <<>>

\* ------------------------------------------------------------------------
\* Step 1: _filter_and_pivot_raw_metrics_by_chain
\* ------------------------------------------------------------------------
\* lines 94-99: the metrics kept by the query; all_metrics is the same list
\* object as non_zero_metrics, so the append is seen through both names
all_metrics(cfg) ==
    LET tvl_metrics == SelectSeq(cfg.metrics, LAMBDA it : IsTvlName(it.name))
        non_zero == SelectSeq(cfg.metrics, LAMBDA it : RLt(Zero, it.weight))
        names == [i \in 1..Len(non_zero) |-> non_zero[i].name]
    IN IF Len(tvl_metrics) > 0 /\ Len(tvl_metrics[1].name) > 0
       THEN Append(names, tvl_metrics[1].name)
       ELSE names

periods_list(cfg) == <<cfg.periods.current, cfg.periods.previous>>

\* the amount of the last observation of the cell
pivot_aggfunc_last(amounts) == amounts[Len(amounts)]

\* line 110: aggfunc='sum' over the observations of one cell
pivot_aggfunc(amounts) == SumSkipna(amounts)

\* lines 104-112: query + pivot_table(aggfunc='sum')
BasicPivot(cfg, rows) ==
    LET am == Range(all_metrics(cfg))
        pl == Range(periods_list(cfg))
        kept == SelectSeq(rows, LAMBDA r : r.metric_name \in am
                                         /\ r.measurement_period \in pl)
        idx == {<<kept[i].project_id, kept[i].chain>> : i \in 1..Len(kept)}
        cols == {<<kept[i].measurement_period, kept[i].metric_name>> :
                     i \in 1..Len(kept)}
        cell(k, c) ==
            LET hit == SelectSeq(kept, LAMBDA r :
                           /\ r.project_id = k[1] /\ r.chain = k[2]
                           /\ r.measurement_period = c[1]
                           /\ r.metric_name = c[2])
            IN IF Len(hit) = 0 THEN Null
               ELSE pivot_aggfunc([i \in 1..Len(hit) |-> hit[i].amount])
    IN [index |-> idx, columns |-> cols,
        val |-> Eval([k \in idx |-> Eval([c \in cols |-> cell(k, c)])])]

\* lines 117: the TVL metrics of the floor, read from the appended list
floor_tvl_metrics(cfg) == {m \in Range(all_metrics(cfg)) : IsTvlName(m)}

\* lines 121-126: pivoted[period].reset_index().groupby('project_id')[m].sum()
total_tvl(pv, period, metric, pid) ==
    LET ks == SetToSeq({k \in pv.index : k[1] = pid})
    IN SumSkipna([i \in 1..Len(ks) |-> pv.val[ks[i]][<<period, metric>>]])

\* line 129: (total_tvl < tvl_minimum).any(axis=1)
below_min(cfg, pv, period, pid) ==
    \E m \in floor_tvl_metrics(cfg) :
        RLt(total_tvl(pv, period, m, pid), cfg.tvl_minimum)

\* lines 118-134 for one period: KeyError when the period or one of the TVL
\* metrics has no column in the pivot
FloorKeyError(cfg, pv, period) ==
    /\ floor_tvl_metrics(cfg) # {}
    /\ \E m \in floor_tvl_metrics(cfg) : <<period, m>> \notin pv.columns

FloorPeriod(cfg, pv, period) ==
    LET tvl_metrics == floor_tvl_metrics(cfg)
        below == {pid \in {k[1] : k \in pv.index} :
                      below_min(cfg, pv, period, pid)}
    IN IF tvl_metrics = {} THEN pv
       ELSE [pv EXCEPT !.val = Eval([k \in pv.index |->
                Eval([c \in pv.columns |->
                    IF c[1] = period /\ c[2] \in tvl_metrics /\ k[1] \in below
                    THEN Null ELSE pv.val[k][c]])])]

\* the whole step: [err, out]
FilterAndPivot(cfg, rows) ==
    LET pv == BasicPivot(cfg, rows)
        cur == cfg.periods.current
        prev == cfg.periods.previous
    IN IF ~ RLt(Zero, cfg.tvl_minimum) THEN [err |-> NoError, out |-> pv]
       ELSE IF FloorKeyError(cfg, pv, cur)
       THEN [err |-> <<"KeyError", "measurement_period">>, out |-> pv]
       ELSE LET p1 == FloorPeriod(cfg, pv, cur)
            IN IF FloorKeyError(cfg, p1, prev)
               THEN [err |-> <<"KeyError", "measurement_period">>, out |-> p1]
               ELSE [err |-> NoError, out |-> FloorPeriod(cfg, p1, prev)]

\* ------------------------------------------------------------------------
\* Step 2: _sum_and_weight_raw_metrics_by_chain
\* ------------------------------------------------------------------------
\* line 151 and the .map(chain_weights).fillna(1.0) of line 156: the keys of
\* the configuration are upper-cased, the chain of the row is looked up as is;
\* of two configuration keys with the same upper-case form the later one wins
chain_weight(cfg, chain) ==
    LET hits == {i \in 1..Len(cfg.chains) : upper(cfg.chains[i].name) = chain}
    IN IF hits = {} THEN One
       ELSE cfg.chains[CHOOSE i \in hits : \A j \in hits : j <= i].weight

\* lines 155-159: mul(..., axis=0).groupby([...]).sum(); sum() skips NaN and
\* gives 0 for a group without values
SumAndWeight(cfg, pv) ==
    LET pids == {k[1] : k \in pv.index}
        cell(pid, c) ==
            LET ks == SetToSeq({k \in pv.index : k[1] = pid})
            IN SumSkipna([i \in 1..Len(ks) |->
                   RMul(pv.val[ks[i]][c], chain_weight(cfg, ks[i][2]))])
    IN [index |-> SortedSeq(pids), columns |-> pv.columns,
        val |-> Eval([pid \in pids |->
                    Eval([c \in pv.columns |-> cell(pid, c)])])]

\* ------------------------------------------------------------------------
\* Step 3: _calculate_metric_variants
\* ------------------------------------------------------------------------
\* every configured metric taken as scored, whatever its weight
non_zero_metrics_all(cfg) == [i \in 1..Len(cfg.metrics) |-> cfg.metrics[i].name]

\* line 184
non_zero_metrics(cfg) ==
    LET nz == SelectSeq(cfg.metrics, LAMBDA it : RLt(Zero, it.weight))
    IN [i \in 1..Len(nz) |-> nz[i].name]

\* growth without the clip at 0
growth_of_noclip(cur, prev) == RSub(cur, prev)

\* line 191: (current_vals - prev_vals).clip(lower=0); NaN stays NaN
growth_of(cur, prev) ==
    LET d == RSub(cur, prev) IN IF RLt(d, Zero) THEN Zero ELSE d

\* retention taken as the larger of the two periods
retention_of_max(cur, prev) ==
    IF IsNull(cur) THEN prev
    ELSE IF IsNull(prev) THEN cur
    ELSE RMax2(cur, prev)

\* line 192: pd.concat([current_vals, prev_vals], axis=1).min(axis=1) skips NaN
retention_of(cur, prev) ==
    IF IsNull(cur) THEN prev
    ELSE IF IsNull(prev) THEN cur
    ELSE RMin2(cur, prev)

\* lines 188-189 raise KeyError when a scored metric has no column for one of
\* the two periods
VariantsKeyError(cfg, df) ==
    \E m \in Range(non_zero_metrics(cfg)) :
        \/ <<cfg.periods.current, m>> \notin df.columns
        \/ <<cfg.periods.previous, m>> \notin df.columns

\* lines 186-194; pd.DataFrame({}) of no scored metric has no row at all
CalculateMetricVariants(cfg, df) ==
    LET ms == Range(non_zero_metrics(cfg))
        cols == ms \X {adoption, growth, retention}
        pids == Range(df.index)
        cell(pid, c) ==
            LET cur == df.val[pid][<<cfg.periods.current, c[1]>>]
                prev == df.val[pid][<<cfg.periods.previous, c[1]>>]
            IN IF c[2] = adoption THEN cur
               ELSE IF c[2] = growth THEN growth_of(cur, prev)
               ELSE retention_of(cur, prev)
    IN IF ms = {} THEN EmptyFrame
       ELSE [index |-> df.index, columns |-> cols,
             val |-> Eval([pid \in pids |->
                         Eval([c \in cols |-> cell(pid, c)])])]

\* ------------------------------------------------------------------------
\* Step 4: _normalize_metric_variants and _minmax_scale
\* ------------------------------------------------------------------------
HasNull(values) == \E i \in 1..Len(values) : IsNull(values[i])

\* np.min / np.max: NaN as soon as one element is NaN
np_min(values) ==
    IF HasNull(values) THEN Null
    ELSE values[CHOOSE i \in 1..Len(values) :
                    \A j \in 1..Len(values) : RLe(values[i], values[j])]
np_max(values) ==
    IF HasNull(values) THEN Null
    ELSE values[CHOOSE i \in 1..Len(values) :
                    \A j \in 1..Len(values) : RLe(values[j], values[i])]

\* the k-th smallest element (k in 1..Len) of a sequence without NaN
Kth(values, k) ==
    values[CHOOSE i \in 1..Len(values) :
        /\ Cardinality({j \in 1..Len(values) : RLt(values[j], values[i])}) < k
        /\ Cardinality({j \in 1..Len(values) : RLe(values[j], values[i])}) >= k]

\* np.percentile(values, q), linear interpolation between the two closest
\* ranks; NaN when values holds a NaN.  q is a rational in [0, 100]
np_percentile(values, q) ==
    IF HasNull(values) THEN Null
    ELSE LET pos == RMul(RDiv(q, R(100)), R(Len(values) - 1))
             lo == pos[1] \div pos[2]
             frac == RSub(pos, R(lo))
             a == Kth(values, lo + 1)
             b == IF lo + 2 <= Len(values) THEN Kth(values, lo + 2) ELSE a
         IN RAdd(a, RMul(frac, RSub(b, a)))

\* np.minimum(values, cap_value): NaN where either side is NaN
np_minimum(values, cap) ==
    Eval([i \in 1..Len(values) |->
        IF IsNull(values[i]) \/ IsNull(cap) THEN Null
        ELSE RMin2(values[i], cap)])

\* scaling that divides by the range without subtracting the minimum
_minmax_scale_nomin(values0, percentile_cap) ==
    IF Len(values0) = 0 THEN values0
    ELSE LET values == IF RLt(percentile_cap, R(100))
                       THEN np_minimum(values0,
                                       np_percentile(values0, percentile_cap))
                       ELSE values0
             min_val == np_min(values)
             max_val == np_max(values)
         IN IF REq(max_val, min_val)
            THEN Eval([i \in 1..Len(values) |-> One])
            ELSE Eval([i \in 1..Len(values) |->
                     RDiv(values[i], RSub(max_val, min_val))])

\* lines 386-401
_minmax_scale(values0, percentile_cap) ==
    IF Len(values0) = 0 THEN values0
    ELSE LET values == IF RLt(percentile_cap, R(100))
                       THEN np_minimum(values0,
                                       np_percentile(values0, percentile_cap))
                       ELSE values0
             min_val == np_min(values)
             max_val == np_max(values)
         IN IF REq(max_val, min_val)
            THEN Eval([i \in 1..Len(values) |-> One])
            ELSE Eval([i \in 1..Len(values) |->
                     RDiv(RSub(values[i], min_val), RSub(max_val, min_val))])

\* lines 212-215
NormalizeMetricVariants(cfg, df) ==
    LET n == Len(df.index)
        df_norm == Eval([c \in df.columns |->
                       _minmax_scale(Eval([i \in 1..n |-> df.val[df.index[i]][c]]),
                                     cfg.percentile_cap)])
        pos(pid) == CHOOSE i \in 1..n : df.index[i] = pid
    IN [df EXCEPT !.val = Eval([pid \in Range(df.index) |->
                              Eval([c \in df.columns |-> df_norm[c][pos(pid)]])])]

\* ------------------------------------------------------------------------
\* Step 5: _apply_weights_to_metric_variants
\* ------------------------------------------------------------------------
\* every configured column multiplied by the metric weight alone
ApplyWeights_metric_only(cfg, df) ==
    [df EXCEPT !.val = Eval([pid \in Range(df.index) |->
        Eval([c \in df.columns |->
            IF c[1] \in Keys(cfg.metrics)
               /\ c[2] \in Keys(cfg.metric_variants)
            THEN RMul(df.val[pid][c], Get(cfg.metrics, c[1]))
            ELSE df.val[pid][c]])])]

\* lines 233-238
ApplyWeights(cfg, df) ==
    LET factor(c) ==
            IF c[1] \in Keys(cfg.metrics) /\ c[2] \in Keys(cfg.metric_variants)
            THEN RMul(Get(cfg.metrics, c[1]), Get(cfg.metric_variants, c[2]))
            ELSE One
    IN [df EXCEPT !.val = Eval([pid \in Range(df.index) |->
           Eval([c \in df.columns |->
               IF c[1] \in Keys(cfg.metrics)
                  /\ c[2] \in Keys(cfg.metric_variants)
               THEN RMul(df.val[pid][c], factor(c))
               ELSE df.val[pid][c]])])]

\* ------------------------------------------------------------------------
\* Step 6: _aggregate_metric_variants
\* ------------------------------------------------------------------------
\* the sum of the squares over the number of all cells of the row
power_mean_sq_len(row) ==
    LET notna == SelectSeq(row, NotNull)
        counts == Len(notna)
    IN IF counts > 0
       THEN RDiv(SumSkipna([i \in 1..counts |-> RMul(notna[i], notna[i])]),
                 R(Len(row)))
       ELSE Null

\* lines 262-264: the square of the power mean (p = 2) of one row, NaN when
\* the row has no value; project_score is the non-negative root of it
power_mean_sq(row) ==
    LET notna == SelectSeq(row, NotNull)
        counts == Len(notna)
    IN IF counts > 0
       THEN RDiv(SumSkipna([i \in 1..counts |-> RMul(notna[i], notna[i])]),
                 R(counts))
       ELSE Null

\* line 266: the square of the plain sum (the cells are never negative)
sum_sq(row) == LET t == SumSkipna(row) IN RMul(t, t)

\* an unknown method taken as the plain sum
AggregateMetricVariants_fallback(df, method) ==
    LET cs == SetToSeq(df.columns)
        row(pid) == Eval([i \in 1..Len(cs) |-> df.val[pid][cs[i]]])
    IN [err |-> NoError, out |->
           [index |-> df.index, columns |-> df.columns, val |-> df.val,
            project_score |->
                Eval([pid \in Range(df.index) |->
                         IF method = "power_mean" THEN power_mean_sq(row(pid))
                         ELSE sum_sq(row(pid))])]]

\* lines 260-269: the weighted table plus a project_score column; err is
\* the exception of an unknown method
AggregateMetricVariants(df, method) ==
    LET cs == SetToSeq(df.columns)
        row(pid) == Eval([i \in 1..Len(cs) |-> df.val[pid][cs[i]]])
    IN IF method = "power_mean"
       THEN [err |-> NoError, out |->
                [index |-> df.index, columns |-> df.columns, val |-> df.val,
                 project_score |->
                     Eval([pid \in Range(df.index) |->
                              power_mean_sq(row(pid))])]]
       ELSE IF method = "sum"
       THEN [err |-> NoError, out |->
                [index |-> df.index, columns |-> df.columns, val |-> df.val,
                 project_score |->
                     Eval([pid \in Range(df.index) |-> sum_sq(row(pid))])]]
       ELSE [err |-> <<"ValueError", "Invalid aggregation method: ", method>>,
             out |-> df]

\* ------------------------------------------------------------------------
\* Step 7: _prepare_final_results
\* ------------------------------------------------------------------------
RECURSIVE JoinStr(_, _)
\* sep.join(parts)
JoinStr(parts, sep) ==
    IF Len(parts) = 0 THEN <<>>
    ELSE IF Len(parts) = 1 THEN parts[1]
    ELSE parts[1] \o sep \o JoinStr(Tail(parts), sep)

\* lines 358-366: the flat name of a (level 0, level 1) column
_flat(cfg, col) ==
    IF col[1] \in PeriodKeys
    THEN replace_space(lower(col[2])) \o <<" ", "[">>
         \o replace_space(lower(col[1])) \o <<"]">>
    ELSE IF col[2] \in Keys(cfg.metric_variants)
    THEN replace_space(lower(col[1])) \o <<"_">> \o lower(col[2])
         \o <<"_", "v", "a", "r", "i", "a", "n", "t">>
    ELSE JoinStr(<<replace_space(lower(col[1])), replace_space(lower(col[2]))>>,
                 <<"_">>)

\* lines 322-323: the columns of the flattened chain-weighted table taken as
\* current-period TVL columns
tvl_columns(cfg, df) ==
    {c \in df.columns :
        /\ Contains(lower(_flat(cfg, c)), <<"t", "v", "l">>)
        /\ Contains(lower(_flat(cfg, c)),
                    replace_space(lower(cfg.periods.current)))}

\* the ceiling test with >= in place of >
exceeds_max_ge(cfg, df, cs, pid) ==
    RLe(cfg.tvl_maximum, SumSkipna([i \in 1..Len(cs) |-> df.val[pid][cs[i]]]))

\* lines 329-332: total_tvl > tvl_maximum for one project
exceeds_max(cfg, df, cs, pid) ==
    RLt(cfg.tvl_maximum, SumSkipna([i \in 1..Len(cs) |-> df.val[pid][cs[i]]]))

\* lines 309-341: the squares of the scores after the ceiling
_apply_tvl_maximum_filter(cfg, scores, df) ==
    LET cs == SetToSeq(tvl_columns(cfg, df))
    IN IF Len(cs) = 0 THEN scores
       ELSE Eval([pid \in DOMAIN scores |->
                IF pid \in Range(df.index) /\ exceeds_max(cfg, df, cs, pid)
                THEN Zero ELSE scores[pid]])

\* scores_series.sum() != 0: the scores are roots, none is negative, so the
\* sum is nonzero exactly when one of the non-null scores is
SumNonZero(scores) ==
    \E pid \in DOMAIN scores : NotNull(scores[pid]) /\ scores[pid][1] # 0

\* normalization by the largest score instead of the sum of the scores
Normalized_ByMax(scores, order) ==
    LET terms == SelectSeq([i \in 1..Len(order) |-> scores[order[i]]], NotNull)
        nonzero == SumNonZero(scores)
        top == terms[CHOOSE i \in 1..Len(terms) :
                         \A j \in 1..Len(terms) : RLe(terms[j], terms[i])]
    IN Eval([pid \in DOMAIN scores |->
           IF nonzero
           THEN [num |-> scores[pid],
                 den |-> IF IsNull(scores[pid]) THEN <<>> ELSE <<top>>]
           ELSE [num |-> scores[pid], den |-> <<>>]])

\* line 296: a weighted_score is sqrt(num) when den is empty, and
\* sqrt(num) / (sqrt(den[1]) + ... + sqrt(den[n])) otherwise
Normalized(scores, order) ==
    LET terms == SelectSeq([i \in 1..Len(order) |-> scores[order[i]]], NotNull)
        nonzero == SumNonZero(scores)
    IN Eval([pid \in DOMAIN scores |->
           IF nonzero
           THEN [num |-> scores[pid],
                 den |-> IF IsNull(scores[pid]) THEN <<>> ELSE terms]
           ELSE [num |-> scores[pid], den |-> <<>>]])

NullScore == [num |-> Null, den |-> <<>>]

\* the comparison of an ascending sort
Before_ascending(ws, index, perm, i, j) ==
    LET a == ws[index[i]].num
        b == ws[index[j]].num
    IN IF IsNull(a) THEN IsNull(b) /\ i < j
       ELSE IF IsNull(b) THEN TRUE
       ELSE RLt(a, b) \/ (REq(a, b) /\ perm[i] < perm[j])

\* row i comes before row j in sort_values('weighted_score',
\* ascending=False): larger score first, NaN last in their original order;
\* the default kind is quicksort, which is not stable, so that the order of
\* equal scores is the one the sort of the build produces (perm)
Before(ws, index, perm, i, j) ==
    LET a == ws[index[i]].num
        b == ws[index[j]].num
    IN IF IsNull(a) THEN IsNull(b) /\ i < j
       ELSE IF IsNull(b) THEN TRUE
       ELSE RLt(b, a) \/ (REq(a, b) /\ perm[i] < perm[j])

SortValues(ws, index, perm) ==
    LET n == Len(index)
        rank(i) == 1 + Cardinality({j \in 1..n : j # i
                                        /\ Before(ws, index, perm, j, i)})
    IN Eval([r \in 1..n |-> index[CHOOSE i \in 1..n : rank(i) = r]])

\* lines 285-297: the weighted_score column joined on the chain-weighted
\* index; scores0 is the project_score column (empty when absent)
FinalScores(cfg, weighted, score_index, scores0) ==
    LET scores == IF RLt(Zero, cfg.tvl_maximum)
                  THEN _apply_tvl_maximum_filter(cfg, scores0, weighted)
                  ELSE scores0
        norm == Normalized(scores, score_index)
    IN Eval([pid \in Range(weighted.index) |->
           IF pid \in DOMAIN norm THEN norm[pid] ELSE NullScore])

\* the row orders sort_values can produce
SortOutcomes(ws, index) ==
    {SortValues(ws, index, perm) : perm \in Permutations(1..Len(index))}

\* the rows whose score is 0 left out of the table
PrepareFinalResults_dropzero(cfg, weighted, ws, order) ==
    [index |-> SelectSeq(order, LAMBDA pid : ws[pid].num # Zero),
     columns |-> {_flat(cfg, c) : c \in weighted.columns},
     val |-> weighted.val,
     weighted_score |-> ws]

\* lines 299-307: the left join keeps the rows of the chain-weighted table
PrepareFinalResults(cfg, weighted, ws, order) ==
    [index |-> order,
     columns |-> {_flat(cfg, c) : c \in weighted.columns},
     val |-> weighted.val,
     weighted_score |-> ws]

\* ------------------------------------------------------------------------
\* State
\* ------------------------------------------------------------------------
VARIABLES
    config,      \* SimulationConfig of the calculator
    df_data,     \* the table the caller passes to run_analysis
    analysis,    \* self.analysis: name of an intermediate |-> table
    pc,          \* position inside run_analysis
    error,       \* the exception that ended the last call, NoError when none
    runs,        \* number of run_analysis calls so far
    max_runs,    \* number of run_analysis calls the caller makes
    outcomes,    \* what each finished call left: [error, analysis]
    argsort,     \* the row order the sort of this build gives each key column
    values,      \* arguments of a direct _minmax_scale call
    scaled       \* [done, out]: whether it returned, and its result

vars == <<config, df_data, analysis, pc, error, runs, max_runs, outcomes,
          argsort, values, scaled>>

Has(key) == key \in DOMAIN analysis
NoAnalysis == [k \in {} |-> EmptyFrame]

Fail(err) ==
    /\ pc' = "failed"
    /\ error' = err
    /\ outcomes' = Append(outcomes, [error |-> err, analysis |-> analysis'])
    /\ UNCHANGED <<config, df_data, runs, max_runs, argsort, values, scaled>>

Store(key, table, next) ==
    /\ analysis' = (key :> table) @@ analysis
    /\ pc' = next
    /\ UNCHANGED <<config, df_data, error, runs, max_runs, outcomes,
                   argsort, values, scaled>>

\* ------------------------------------------------------------------------
\* run_analysis, lines 68-72
\* ------------------------------------------------------------------------
\* the table passed on without the filter
EligibleRows_keepall(df) == df

\* df_data[df_data['is_eligible'] == True]; the flag of a row is "True",
\* "False" or "NaN" (no flag for the project in the projects file)
EligibleRows(df) ==
    [df EXCEPT !.rows = SelectSeq(df.rows, LAMBDA r : r.is_eligible = "True")]

\* raw data appended to the raw data an earlier run left behind
StoreRawData_Accumulate(old, df) ==
    IF "raw_data" \in DOMAIN old
    THEN ("raw_data" :> [df EXCEPT !.rows = old["raw_data"].rows \o df.rows])
    ELSE ("raw_data" :> df)

\* line 72: self.analysis = {"raw_data": df_data}
StoreRawData(old, df) == ("raw_data" :> df)

\* run_analysis(df): df_data is the table of the most recent call
RunAnalysisOn(df) ==
    /\ pc \in {"idle", "done", "failed"}
    /\ runs < max_runs
    /\ runs' = runs + 1
    /\ df_data' = df
    /\ IF config.eligibility_filter /\ ~ df.has_is_eligible
       THEN /\ analysis' = analysis
            /\ pc' = "failed"
            /\ error' = <<"KeyError", "is_eligible">>
            /\ outcomes' = Append(outcomes,
                                  [error |-> <<"KeyError", "is_eligible">>,
                                   analysis |-> analysis])
       ELSE /\ analysis' = StoreRawData(analysis,
                               IF config.eligibility_filter
                               THEN EligibleRows(df) ELSE df)
            /\ pc' = "step1"
            /\ error' = NoError
            /\ UNCHANGED outcomes
    /\ UNCHANGED <<config, max_runs, argsort, values, scaled>>

\* every call of a calculator that is given the same table each time
RunAnalysis == RunAnalysisOn(df_data)

\* ------------------------------------------------------------------------
\* The seven stage methods; next is where the caller goes on after the call
\* ------------------------------------------------------------------------
\* lines 90-92 and 136
Stage1(next) ==
    IF ~ Has("raw_data")
    THEN analysis' = analysis
         /\ Fail(<<"ValueError", "Raw data not found in analysis. Ensure 'raw_data' is set before Step 1.">>)
    ELSE LET r == FilterAndPivot(config, analysis["raw_data"].rows)
         IN IF r.err # NoError
            THEN analysis' = analysis /\ Fail(r.err)
            ELSE Store("pivoted_raw_metrics_by_chain", r.out, next)

\* lines 152-160
Stage2(next) ==
    IF ~ Has("pivoted_raw_metrics_by_chain")
    THEN analysis' = analysis
         /\ Fail(<<"ValueError", "Pivoted raw metrics not found. Check Step 1.">>)
    ELSE Store("pivoted_raw_metrics_weighted_by_chain",
               SumAndWeight(config, analysis["pivoted_raw_metrics_by_chain"]),
               next)

\* lines 178-194
Stage3(next) ==
    IF ~ Has("pivoted_raw_metrics_weighted_by_chain")
    THEN analysis' = analysis
         /\ Fail(<<"ValueError", "Weighted metrics not found. Check Step 2.">>)
    ELSE LET df == analysis["pivoted_raw_metrics_weighted_by_chain"]
         IN IF VariantsKeyError(config, df)
            THEN analysis' = analysis
                 /\ Fail(<<"KeyError", "(measurement_period, metric_name)">>)
            ELSE Store("pivoted_metric_variants",
                       CalculateMetricVariants(config, df), next)

\* lines 209-215
Stage4(next) ==
    IF ~ Has("pivoted_metric_variants")
    THEN analysis' = analysis
         /\ Fail(<<"ValueError", "Metric variants not computed. Check Step 3.">>)
    ELSE Store("normalized_metric_variants",
               NormalizeMetricVariants(config,
                                       analysis["pivoted_metric_variants"]),
               next)

\* lines 230-238
Stage5(next) ==
    IF ~ Has("normalized_metric_variants")
    THEN analysis' = analysis
         /\ Fail(<<"ValueError", "Normalized metric variants not available. Check Step 4.">>)
    ELSE Store("weighted_metric_variants",
               ApplyWeights(config, analysis["normalized_metric_variants"]),
               next)

\* the score column added to the weighted table itself, without the copy
Stage6_nocopy(method, next) ==
    IF ~ Has("weighted_metric_variants")
    THEN analysis' = analysis
         /\ Fail(<<"ValueError", "Weighted metric variants not available. Check Step 5.">>)
    ELSE LET r == AggregateMetricVariants(
                      analysis["weighted_metric_variants"], method)
         IN IF r.err # NoError
            THEN analysis' = analysis /\ Fail(r.err)
            ELSE /\ analysis' = ("aggregated_project_scores" :> r.out)
                                  @@ ("weighted_metric_variants" :> r.out)
                                  @@ analysis
                 /\ pc' = next
                 /\ UNCHANGED <<config, df_data, error, runs, max_runs,
                                outcomes, argsort, values, scaled>>

\* lines 257-269
Stage6(method, next) ==
    IF ~ Has("weighted_metric_variants")
    THEN analysis' = analysis
         /\ Fail(<<"ValueError", "Weighted metric variants not available. Check Step 5.">>)
    ELSE LET r == AggregateMetricVariants(
                      analysis["weighted_metric_variants"], method)
         IN IF r.err # NoError
            THEN analysis' = analysis /\ Fail(r.err)
            ELSE Store("aggregated_project_scores", r.out, next)

\* line 303: the chain-weighted table is indexed by (project_id,
\* project_name, display_name); an empty score column (no aggregated scores,
\* or scores of the pd.DataFrame({}) of line 194) has an unnamed index, and
\* the join of the two raises
JoinError ==
    \/ ~ Has("aggregated_project_scores")
    \/ analysis["aggregated_project_scores"].columns = {}

\* lines 282-307: _flatten_columns(None) raises on df.copy()
Stage7 ==
    IF ~ Has("pivoted_raw_metrics_weighted_by_chain")
       \/ ~ Has("pivoted_metric_variants")
       \/ ~ Has("weighted_metric_variants")
    THEN analysis' = analysis
         /\ Fail(<<"AttributeError", "'NoneType' object has no attribute 'copy'">>)
    ELSE IF JoinError
    THEN analysis' = analysis
         /\ Fail(<<"ValueError", "cannot join with no overlapping index names">>)
    ELSE LET weighted == analysis["pivoted_raw_metrics_weighted_by_chain"]
             sdf == analysis["aggregated_project_scores"]
             ws == FinalScores(config, weighted, sdf.index, sdf.project_score)
             key == [i \in 1..Len(weighted.index) |-> ws[weighted.index[i]]]
         IN \E order \in SortOutcomes(ws, weighted.index) :
               /\ \A m \in argsort : m[1] = key => m[2] = order
               /\ argsort' = argsort \cup {<<key, order>>}
               /\ analysis' = ("final_results" :>
                      PrepareFinalResults(config, weighted, ws, order))
                      @@ analysis
               /\ pc' = "done"
               /\ outcomes' = Append(outcomes,
                                  [error |-> NoError, analysis |-> analysis'])
               /\ UNCHANGED <<config, df_data, error, runs, max_runs, values,
                              scaled>>

\* ------------------------------------------------------------------------
\* run_analysis, lines 75-81: the stages in order, the Aggregator with its
\* default method
\* ------------------------------------------------------------------------
Step1 == pc = "step1" /\ Stage1("step2")
Step2 == pc = "step2" /\ Stage2("step3")
Step3 == pc = "step3" /\ Stage3("step4")
Step4 == pc = "step4" /\ Stage4("step5")
Step5 == pc = "step5" /\ Stage5("step6")
Step6 == pc = "step6" /\ Stage6("power_mean", "step7")
Step7 == pc = "step7" /\ Stage7

\* ------------------------------------------------------------------------
\* the stage methods called one by one by a caller, in any order, until one
\* of them raises or the Finalizer returns
\* ------------------------------------------------------------------------
Methods == {"power_mean", "sum", "median"}

CallStage1 == pc = "direct" /\ Stage1("direct")
CallStage2 == pc = "direct" /\ Stage2("direct")
CallStage3 == pc = "direct" /\ Stage3("direct")
CallStage4 == pc = "direct" /\ Stage4("direct")
CallStage5 == pc = "direct" /\ Stage5("direct")
CallStage6 == pc = "direct" /\ \E method \in Methods : Stage6(method, "direct")
CallStage7 == pc = "direct" /\ Stage7

NextDirect ==
    \/ CallStage1
    \/ CallStage2
    \/ CallStage3
    \/ CallStage4
    \/ CallStage5
    \/ CallStage6
    \/ CallStage7

\* a direct call of the static method _minmax_scale
MinMaxScaleCall ==
    /\ ~ scaled.done
    /\ scaled' = [done |-> TRUE,
                  out |-> _minmax_scale(values.values, values.percentile_cap)]
    /\ UNCHANGED <<config, df_data, analysis, pc, error, runs, max_runs,
                   outcomes, argsort, values>>

NextScale == MinMaxScaleCall

Next ==
    \/ RunAnalysis
    \/ Step1
    \/ Step2
    \/ Step3
    \/ Step4
    \/ Step5
    \/ Step6
    \/ Step7

\* ------------------------------------------------------------------------
\* Initial states: a calculator just constructed (lines 51-56) and the inputs
\* ------------------------------------------------------------------------
Jun == <<"j", "u", "n">>
May == <<"m", "a", "y">>
Tvl == <<"t", "v", "l">>
ChainB == <<"B">>

Projects == 1..NumProjects

\* one observation
Row(pid, period, amount) ==
    [project_id |-> pid, chain |-> ChainB, metric_name |-> Tvl,
     measurement_period |-> period, amount |-> R(amount),
     is_eligible |-> "True"]

\* the observations of a table with at most one amount per (project, period):
\* cells[k] is <<>> when (project, period) has no observation, <<a>> otherwise
RowsOf(cells) ==
    SetToSeq({Row(k[1], k[2], cells[k][1]) :
                  k \in {c \in DOMAIN cells : cells[c] # <<>>}})

Frame(rows) == [has_is_eligible |-> TRUE, rows |-> rows]

Config(chain_w, variants, tvl_min, tvl_max) ==
    [periods |-> [current |-> Jun, previous |-> May],
     chains |-> <<[name |-> ChainB, weight |-> R(chain_w)]>>,
     metrics |-> <<[name |-> Tvl, weight |-> One]>>,
     metric_variants |-> variants,
     tvl_minimum |-> R(tvl_min),
     tvl_maximum |-> R(tvl_max),
     eligibility_filter |-> FALSE,
     percentile_cap |-> R(100)]

AllVariants == <<[name |-> adoption, weight |-> One],
                 [name |-> growth, weight |-> One],
                 [name |-> retention, weight |-> One]>>

Fresh ==
    /\ analysis = NoAnalysis
    /\ pc = "idle"
    /\ error = NoError
    /\ runs = 0
    /\ outcomes = <<>>
    /\ argsort = {}

NoScaleCall ==
    /\ values = [values |-> <<>>, percentile_cap |-> R(100)]
    /\ scaled = [done |-> TRUE, out |-> <<>>]

Amounts == {<<>>} \cup {<<a>> : a \in 0..MaxAmount}

\* one run on any table of NumProjects projects, with and without a ceiling
Init ==
    /\ \E cells \in [Projects \X {Jun, May} -> Amounts] :
           df_data = Frame(RowsOf(cells))
    /\ \E tvl_max \in 0..MaxTvlMaximum :
           config = Config(2, AllVariants, 0, tvl_max)
    /\ max_runs = 1
    /\ Fresh
    /\ NoScaleCall

Spec == Init /\ [][Next]_vars

\* MaxRuns runs in a row of one calculator on the same table: any
\* current-period amounts, one previous-period amount shared by the projects
InitRerun ==
    /\ \E cur \in [Projects -> Amounts], prev \in Amounts :
           df_data = Frame(RowsOf([k \in Projects \X {Jun, May} |->
                                      IF k[2] = Jun THEN cur[k[1]] ELSE prev]))
    /\ config = Config(2, AllVariants, 0, 2)
    /\ max_runs = MaxRuns
    /\ Fresh
    /\ NoScaleCall

SpecRerun == InitRerun /\ [][Next]_vars

\* Scenario A: two projects, current amounts 10 and 0, any previous amounts
PrevA == {<<>>, <<0 - 5>>, <<0>>, <<5>>, <<10>>, <<15>>}
CellsA(x, y) ==
    (<<1, Jun>> :> <<10>>) @@ (<<2, Jun>> :> <<0>>)
    @@ (<<1, May>> :> x) @@ (<<2, May>> :> y)

InitA ==
    /\ \E x \in PrevA, y \in PrevA : df_data = Frame(RowsOf(CellsA(x, y)))
    /\ config = Config(1, <<[name |-> adoption, weight |-> One]>>, 0, 0)
    /\ max_runs = 1
    /\ Fresh
    /\ NoScaleCall

SpecA == InitA /\ [][Next]_vars

\* direct calls of _minmax_scale on columns of up to MaxColLen cells
ColVals == {Null} \cup {R(v) : v \in (0 - 1)..MaxColVal}
Columns == UNION {[1..n -> ColVals] : n \in 1..MaxColLen}

InitScale ==
    /\ \E col \in Columns, cap \in {R(50), R(100)} :
           values = [values |-> col, percentile_cap |-> cap]
    /\ scaled = [done |-> FALSE, out |-> <<>>]
    /\ df_data = Frame(<<>>)
    /\ config = Config(1, AllVariants, 0, 0)
    /\ max_runs = 0
    /\ Fresh

SpecScale == InitScale /\ [][NextScale]_vars

\* one observation of any chain and metric, with the eligibility flag the
\* join of load_data gave its project
Obs(pid, chain, metric, period, amount, flag) ==
    [project_id |-> pid, chain |-> chain, metric_name |-> metric,
     measurement_period |-> period, amount |-> R(amount), is_eligible |-> flag]

\* the rows with the flag of each project in place of "True"
WithFlags(rows, flags) ==
    [i \in 1..Len(rows) |->
        [rows[i] EXCEPT !.is_eligible = flags[rows[i].project_id]]]

Flags == {"True", "False", "NaN"}

\* one run with eligibility_filter on a table whose projects are flagged
\* eligible, ineligible or not at all, or that has no is_eligible column
InitElig ==
    /\ \E cur \in [Projects -> Amounts], prev \in Amounts :
           LET rows == RowsOf([k \in Projects \X {Jun, May} |->
                                  IF k[2] = Jun THEN cur[k[1]] ELSE prev])
           IN \/ \E flags \in [Projects -> Flags] :
                     df_data = Frame(WithFlags(rows, flags))
              \/ df_data = [has_is_eligible |-> FALSE, rows |-> rows]
    /\ config = [Config(2, AllVariants, 0, 0) EXCEPT !.eligibility_filter = TRUE]
    /\ max_runs = 1
    /\ Fresh
    /\ NoScaleCall

SpecElig == InitElig /\ [][Next]_vars

\* chain codes of the data and of the configuration in both cases, and a
\* chain the configuration does not map
ChainLowerB == <<"b">>
ChainO == <<"o">>
DataChains == {ChainB, ChainLowerB, ChainO}
ConfigChains == {ChainB, ChainLowerB}

\* every project has a previous-period observation on chain B and a
\* current-period one on a chain of its own; project 1 has a second
\* current-period observation, on the same chain or on another one
RowsChains(obs, extra) ==
    [i \in 1..NumProjects |-> Obs(i, ChainB, Tvl, May, 1, "True")]
    \o [i \in 1..NumProjects |->
           Obs(i, obs[i][1], Tvl, Jun, obs[i][2], "True")]
    \o <<Obs(1, extra[1], Tvl, Jun, extra[2], "True")>>

InitChains ==
    /\ \E obs \in [Projects -> DataChains \X (0..MaxAmount)],
          extra \in DataChains \X (0..MaxAmount) :
           df_data = Frame(RowsChains(obs, extra))
    /\ \E key \in ConfigChains :
           config = [Config(2, AllVariants, 0, 0) EXCEPT
                        !.chains = <<[name |-> key, weight |-> R(2)]>>]
    /\ max_runs = 1
    /\ Fresh
    /\ NoScaleCall

SpecChains == InitChains /\ [][Next]_vars

\* a second metric, not TVL-tagged
Gas == <<"g", "a", "s">>

\* every project has both metrics in the previous period and tvl in the
\* current one; gas in the current period is observed or not
RowsZero(tvl_cur, gas_cur) ==
    SetToSeq({Obs(i, ChainB, Tvl, May, 1, "True") : i \in Projects}
             \cup {Obs(i, ChainB, Gas, May, 1, "True") : i \in Projects}
             \cup {Obs(i, ChainB, Tvl, Jun, tvl_cur[i], "True") : i \in Projects}
             \cup {Obs(i, ChainB, Gas, Jun, gas_cur[i][1], "True") :
                       i \in {j \in Projects : gas_cur[j] # <<>>}})

\* one run with two metrics of which one has weight 0
InitZero ==
    /\ \E tvl_cur \in [Projects -> 0..MaxAmount],
          gas_cur \in [Projects -> Amounts] :
           df_data = Frame(RowsZero(tvl_cur, gas_cur))
    /\ \E w \in {<<1, 0>>, <<0, 1>>} :
           config = [Config(2, AllVariants, 0, 0) EXCEPT
                        !.metrics = <<[name |-> Tvl, weight |-> R(w[1])],
                                      [name |-> Gas, weight |-> R(w[2])]>>]
    /\ max_runs = 1
    /\ Fresh
    /\ NoScaleCall

SpecZero == InitZero /\ [][Next]_vars

\* a second TVL-tagged metric
Tvl2 == <<"t", "v", "l", "2">>

\* every project has both TVL metrics in both periods on chain B; project 1
\* has a second current-period tvl observation on another chain
RowsFloor(cur, extra) ==
    SetToSeq({Obs(i, ChainB, Tvl, May, 1, "True") : i \in Projects}
             \cup {Obs(i, ChainB, Tvl2, May, 1, "True") : i \in Projects}
             \cup {Obs(i, ChainB, Tvl, Jun, cur[i][1], "True") : i \in Projects}
             \cup {Obs(i, ChainB, Tvl2, Jun, cur[i][2], "True") : i \in Projects}
             \cup {Obs(1, ChainO, Tvl, Jun, extra, "True")})

\* one run with a TVL floor, on one or on two TVL-tagged metrics
InitFloor ==
    /\ \E cur \in [Projects -> (0..MaxAmount) \X (0..MaxAmount)],
          extra \in 0..MaxAmount :
           df_data = Frame(RowsFloor(cur, extra))
    /\ \E tvl_min \in 1..MaxTvlMinimum :
       \E ms \in {<<[name |-> Tvl, weight |-> One]>>,
                  <<[name |-> Tvl, weight |-> One],
                    [name |-> Tvl2, weight |-> One]>>} :
           config = [Config(1, AllVariants, tvl_min, 0) EXCEPT !.metrics = ms]
    /\ max_runs = 1
    /\ Fresh
    /\ NoScaleCall

SpecFloor == InitFloor /\ [][Next]_vars

\* every project has tvl, tvl2 and gas in both periods on chain B; the tvl
\* amounts vary
RowsFrame(cur, prev) ==
    SetToSeq({Obs(i, ChainB, Tvl, Jun, cur[i], "True") : i \in Projects}
             \cup {Obs(i, ChainB, Tvl, May, prev, "True") : i \in Projects}
             \cup {Obs(i, ChainB, m, p, 1, "True") :
                       i \in Projects, m \in {Tvl2, Gas}, p \in {Jun, May}})

\* one run with a TVL floor and a metric that is not TVL-tagged
InitFrame ==
    /\ \E cur \in [Projects -> 0..MaxAmount], prev \in 0..MaxAmount :
           df_data = Frame(RowsFrame(cur, prev))
    /\ \E tvl_min \in 1..MaxTvlMinimum :
       \E ms \in {<<[name |-> Tvl, weight |-> One],
                    [name |-> Gas, weight |-> One]>>,
                  <<[name |-> Tvl, weight |-> One],
                    [name |-> Tvl2, weight |-> One],
                    [name |-> Gas, weight |-> One]>>} :
           config = [Config(1, AllVariants, tvl_min, 0) EXCEPT !.metrics = ms]
    /\ max_runs = 1
    /\ Fresh
    /\ NoScaleCall

SpecFrame == InitFrame /\ [][Next]_vars

\* a normalized table the caller stores itself: the row of project 1 is any
\* row over CellVals, the other projects have the row [0.5, null, 0.5] on
\* the tvl columns; the gas column belongs to no configured metric
CellVals == {Null} \cup {Norm(a, 2) : a \in 0..MaxCell}
VariantColumns == {<<Tvl, adoption>>, <<Tvl, growth>>, <<Tvl, retention>>,
                   <<Gas, adoption>>}
HalfNullHalf ==
    [c \in VariantColumns |->
        IF c \in {<<Tvl, adoption>>, <<Tvl, retention>>} THEN Norm(1, 2)
        ELSE Null]
NormalizedTable(row) ==
    [index |-> SortedSeq(Projects), columns |-> VariantColumns,
     val |-> [pid \in Projects |-> IF pid = 1 THEN row ELSE HalfNullHalf]]

\* variant weights that leave growth out
NoGrowth == <<[name |-> adoption, weight |-> Norm(1, 2)],
              [name |-> retention, weight |-> One]>>

\* the Weighter and the Aggregator called on such a table
InitWeigh ==
    /\ df_data = Frame(<<>>)
    /\ \E w \in 1..MaxWeight, variants \in {AllVariants, NoGrowth} :
           config = [Config(1, variants, 0, 0) EXCEPT
                        !.metrics = <<[name |-> Tvl, weight |-> R(w)]>>]
    /\ \E row \in [VariantColumns -> CellVals] :
           analysis = ("normalized_metric_variants" :> NormalizedTable(row))
    /\ pc = "direct"
    /\ error = NoError
    /\ runs = 0
    /\ max_runs = 0
    /\ outcomes = <<>>
    /\ argsort = {}
    /\ NoScaleCall

NextWeigh ==
    \/ CallStage5
    \/ CallStage6

SpecWeigh == InitWeigh /\ [][NextWeigh]_vars

\* a period that is not configured
Apr == <<"a", "p", "r">>

\* the observations of RowsFrame and one tvl observation of april
RowsTags(cur, prev) ==
    RowsFrame(cur, prev) \o <<Obs(1, ChainB, Tvl, Apr, 1, "True")>>

\* one run with two TVL-tagged metrics and one other metric, each of weight
\* 0 or 1
InitTags ==
    /\ \E cur \in [Projects -> 0..MaxAmount], prev \in 0..MaxAmount :
           df_data = Frame(RowsTags(cur, prev))
    /\ \E w \in [1..3 -> {0, 1}] :
           config = [Config(1, AllVariants, 0, 0) EXCEPT
                        !.metrics = <<[name |-> Tvl, weight |-> R(w[1])],
                                      [name |-> Tvl2, weight |-> R(w[2])],
                                      [name |-> Gas, weight |-> R(w[3])]>>]
    /\ max_runs = 1
    /\ Fresh
    /\ NoScaleCall

SpecTags == InitTags /\ [][Next]_vars

\* a period label contained in the label jun
Ju == <<"j", "u">>

\* current and previous labels: neither contained in the other, the current
\* one contained in the previous one, and the reverse
LabelPairs == {<<Jun, May>>, <<Ju, Jun>>, <<Jun, Ju>>}

\* one run with a ceiling on a table where every project has a tvl
\* observation in both periods
InitLabels ==
    /\ \E labels \in LabelPairs :
       \E cells \in [Projects \X {labels[1], labels[2]} -> 0..MaxAmount] :
       \E tvl_max \in 1..MaxTvlMaximum :
           /\ df_data = Frame(RowsOf([k \in DOMAIN cells |-> <<cells[k]>>]))
           /\ config = [Config(1, AllVariants, 0, tvl_max) EXCEPT
                           !.periods = [current |-> labels[1],
                                        previous |-> labels[2]]]
    /\ max_runs = 1
    /\ Fresh
    /\ NoScaleCall

SpecLabels == InitLabels /\ [][Next]_vars

\* the tables handed to run_analysis: with the is_eligible column (every
\* project eligible) and without it, and a table without rows
CallTables ==
    {Frame(<<>>)} \cup
    UNION {{Frame(rows), [has_is_eligible |-> FALSE, rows |-> rows]} :
              rows \in {RowsOf([k \in Projects \X {Jun, May} |->
                                   IF k = <<1, Jun>> THEN a ELSE <<1>>]) :
                            a \in Amounts}}

\* run_analysis called on any of the tables
CallRunAnalysis == \E df \in CallTables : RunAnalysisOn(df)

NextCalls ==
    \/ CallRunAnalysis
    \/ Step1
    \/ Step2
    \/ Step3
    \/ Step4
    \/ Step5
    \/ Step6
    \/ Step7

\* a calculator with the eligibility filter, called up to MaxRuns times on
\* tables of its caller's choice
InitCalls ==
    /\ df_data = Frame(<<>>)
    /\ config = [Config(2, AllVariants, 0, 0) EXCEPT !.eligibility_filter = TRUE]
    /\ max_runs = MaxRuns
    /\ Fresh
    /\ NoScaleCall

SpecCalls == InitCalls /\ [][NextCalls]_vars

\* a calculator whose stage methods the caller invokes itself, on an empty
\* analysis dictionary or on one where it has set raw_data
InitDirect ==
    /\ \E cur \in [Projects -> Amounts], prev \in Amounts :
           df_data = Frame(RowsOf([k \in Projects \X {Jun, May} |->
                                      IF k[2] = Jun THEN cur[k[1]] ELSE prev]))
    /\ config = Config(2, AllVariants, 0, 0)
    /\ analysis \in {NoAnalysis, StoreRawData(NoAnalysis, df_data)}
    /\ pc = "direct"
    /\ error = NoError
    /\ runs = 0
    /\ max_runs = 0
    /\ outcomes = <<>>
    /\ argsort = {}
    /\ NoScaleCall

SpecDirect == InitDirect /\ [][NextDirect]_vars

\* ------------------------------------------------------------------------
\* Properties
\* ------------------------------------------------------------------------
Done == pc = "done"
NonZero(q) == NotNull(q) /\ q[1] # 0
Count(seq, v) == Cardinality({i \in 1..Len(seq) : seq[i] = v})
SameBag(a, b) ==
    /\ Len(a) = Len(b)
    /\ \A v \in Range(a) \cup Range(b) : Count(a, v) = Count(b, v)
NonZeroTerms(seq) == SelectSeq(seq, NonZero)

\* the weighted_score column of final_results, in row order
ScoreColumn ==
    LET fr == analysis["final_results"]
    IN [i \in 1..Len(fr.index) |-> fr.weighted_score[fr.index[i]]]

\* a weighted_score equal to 0 / equal to 1.  The numerator of a divided
\* score is one of the terms of its denominator and no term is negative, so
\* the quotient is 1 exactly when every other term is 0
IsZeroScore(w) == NotNull(w.num) /\ w.num = Zero
IsOneScore(w) ==
    /\ NonZero(w.num)
    /\ IF w.den = <<>> THEN w.num = One
       ELSE NonZeroTerms(w.den) = <<w.num>>

\* the column sums to 1: every row is divided by the same sum, and the
\* numerators of the rows are exactly the terms of that sum
ColumnSumsToOne(col) ==
    LET present == SelectSeq(col, LAMBDA w : NotNull(w.num))
    IN /\ Len(present) > 0
       /\ \A i \in 1..Len(present) :
              present[i].den # <<>> /\ present[i].den = present[1].den
       /\ SameBag(NonZeroTerms([i \in 1..Len(present) |-> present[i].num]),
                  NonZeroTerms(present[1].den))

\* C1: after the Finalizer the weighted_score column sums to 1 whenever a
\* post-ceiling score is nonzero; when every score is zero the column is left
\* undivided and all zero
C1_WeightedScoreSumsToOne ==
    Done =>
        LET col == ScoreColumn
        IN IF \E i \in 1..Len(col) : NonZero(col[i].num)
           THEN ColumnSumsToOne(col)
           ELSE \A i \in 1..Len(col) :
                    col[i].den = <<>> /\ (IsNull(col[i].num) \/ col[i].num = Zero)

C1_Witness ==
    /\ Done
    /\ LET col == ScoreColumn
       IN /\ Cardinality({i \in 1..Len(col) : NonZero(col[i].num)}) >= 2
          /\ \E i \in 1..Len(col) : \E j \in 1..Len(col) :
                 col[i].num # col[j].num

\* the previous-period cell of a project in the caller's table
PrevCell(pid) ==
    LET hit == SelectSeq(df_data.rows, LAMBDA r :
                   r.project_id = pid /\ r.measurement_period = May)
    IN IF Len(hit) = 0 THEN <<>> ELSE <<hit[1].amount>>

NormalizedAdoption(pid) ==
    analysis["normalized_metric_variants"].val[pid][<<Tvl, adoption>>]

ScenarioAAdoption ==
    Has("normalized_metric_variants") =>
        NormalizedAdoption(1) = One /\ NormalizedAdoption(2) = Zero

ScenarioAScores ==
    LET ws == analysis["final_results"].weighted_score
    IN IsOneScore(ws[1]) /\ IsZeroScore(ws[2])

C3_RerunIdentical ==
    \A i \in 1..Len(outcomes) :
        /\ outcomes[i].error = outcomes[1].error
        /\ ("final_results" \in DOMAIN outcomes[i].analysis)
             = ("final_results" \in DOMAIN outcomes[1].analysis)
        /\ "final_results" \in DOMAIN outcomes[i].analysis =>
               outcomes[i].analysis["final_results"]
                   = outcomes[1].analysis["final_results"]

C3_Witness ==
    /\ Len(outcomes) = 2
    /\ outcomes[2].error = NoError
    /\ \E pid \in Projects :
           pid \in DOMAIN outcomes[2].analysis["final_results"].weighted_score
           /\ NonZero(outcomes[2].analysis["final_results"].weighted_score[pid].num)

\* the chain-weighted value of a project for a period
WeightedCell(pid, period, metric) ==
    analysis["pivoted_raw_metrics_weighted_by_chain"].val[pid][<<period, metric>>]

VariantCell(pid, metric, variant) ==
    analysis["pivoted_metric_variants"].val[pid][<<metric, variant>>]

VariantRows == Range(analysis["pivoted_metric_variants"].index)
ScoredMetrics == Range(non_zero_metrics(config))

\* C4: every growth cell of the variant table is >= 0
C4_GrowthNonNegative ==
    Has("pivoted_metric_variants") =>
        \A pid \in VariantRows : \A m \in ScoredMetrics :
            RLe(Zero, VariantCell(pid, m, growth))

C4_Witness ==
    /\ Has("pivoted_metric_variants")
    /\ \E pid \in VariantRows :
           /\ RLt(WeightedCell(pid, Jun, Tvl), WeightedCell(pid, May, Tvl))
           /\ VariantCell(pid, Tvl, growth) = Zero

\* the project has an observation of the metric in the period
HasValue(pid, period, metric) ==
    \E i \in 1..Len(analysis["raw_data"].rows) :
        LET r == analysis["raw_data"].rows[i]
        IN /\ r.project_id = pid /\ r.measurement_period = period
           /\ r.metric_name = metric /\ NotNull(r.amount)

\* C5: growth is null when the project has no current-period value or no
\* previous-period value of the metric
C5_GrowthNullWhenMissing ==
    Has("pivoted_metric_variants") =>
        \A pid \in VariantRows : \A m \in ScoredMetrics :
            (~ HasValue(pid, config.periods.current, m)
             \/ ~ HasValue(pid, config.periods.previous, m))
                => IsNull(VariantCell(pid, m, growth))

\* C6: retention is min(current, previous) when both values exist and null
\* when one of them is missing
C6_RetentionMinOrNull ==
    Has("pivoted_metric_variants") =>
        \A pid \in VariantRows : \A m \in ScoredMetrics :
            IF HasValue(pid, config.periods.current, m)
               /\ HasValue(pid, config.periods.previous, m)
            THEN VariantCell(pid, m, retention)
                   = RMin2(WeightedCell(pid, config.periods.current, m),
                           WeightedCell(pid, config.periods.previous, m))
            ELSE IsNull(VariantCell(pid, m, retention))

\* the number of non-null cells among the first i cells
NotNullUpTo(col, i) == Cardinality({j \in 1..i : NotNull(col[j])})

\* C7: _minmax_scale maps null to null and scales each non-null cell as if
\* the null cells were not in the column
C7_NullsDoNotParticipate ==
    scaled.done =>
        LET col == values.values
            ref == _minmax_scale(SelectSeq(col, NotNull), values.percentile_cap)
        IN \A i \in 1..Len(col) :
               IF IsNull(col[i]) THEN IsNull(scaled.out[i])
               ELSE scaled.out[i] = ref[NotNullUpTo(col, i)]

\* C8: with percentile_cap = 100 every non-null normalized cell is in [0, 1]
C8_NormalizedInUnitInterval ==
    (scaled.done /\ values.percentile_cap = R(100)) =>
        \A i \in 1..Len(scaled.out) :
            NotNull(scaled.out[i]) =>
                RLe(Zero, scaled.out[i]) /\ RLe(scaled.out[i], One)

C8_Witness ==
    /\ scaled.done
    /\ values.percentile_cap = R(100)
    /\ ~ HasNull(values.values)
    /\ \E i \in 1..Len(scaled.out) :
           RLt(Zero, scaled.out[i]) /\ RLt(scaled.out[i], One)

\* the current-period TVL total of a project in the chain-weighted table
CurrentTvlTotal(pid) ==
    LET df == analysis["pivoted_raw_metrics_weighted_by_chain"]
        cs == SetToSeq({c \in df.columns :
                           c[1] = config.periods.current /\ IsTvlName(c[2])})
    IN SumSkipna([i \in 1..Len(cs) |-> df.val[pid][cs[i]]])

\* C9: with a ceiling, a project above it keeps its row and has
\* weighted_score 0; a project at or below it keeps its aggregated score
C9_TvlCeiling ==
    (Done /\ RLt(Zero, config.tvl_maximum)) =>
        LET fr == analysis["final_results"]
            agg == analysis["aggregated_project_scores"].project_score
        IN \A pid \in Range(analysis["pivoted_raw_metrics_weighted_by_chain"].index) :
               /\ pid \in Range(fr.index)
               /\ IF RLt(config.tvl_maximum, CurrentTvlTotal(pid))
                  THEN IsZeroScore(fr.weighted_score[pid])
                  ELSE fr.weighted_score[pid].num = agg[pid]

C9_Witness ==
    /\ Done
    /\ RLt(Zero, config.tvl_maximum)
    /\ \E pid \in Range(analysis["final_results"].index) :
           /\ RLt(config.tvl_maximum, CurrentTvlTotal(pid))
           /\ NonZero(analysis["aggregated_project_scores"].project_score[pid])
           /\ IsZeroScore(analysis["final_results"].weighted_score[pid])

\* position of a project in a table
PosIn(index, pid) == CHOOSE i \in 1..Len(index) : index[i] = pid

SortedDescending ==
    LET col == ScoreColumn
    IN \A i \in 1..Len(col) : \A j \in 1..Len(col) :
           i < j => \/ IsNull(col[j].num)
                    \/ RLe(col[j].num, col[i].num)

TiesKeepJoinOrder ==
    LET fr == analysis["final_results"]
        src == analysis["pivoted_raw_metrics_weighted_by_chain"].index
    IN \A i \in 1..Len(fr.index) : \A j \in 1..Len(fr.index) :
           (i < j /\ fr.weighted_score[fr.index[i]].num
                       = fr.weighted_score[fr.index[j]].num)
               => PosIn(src, fr.index[i]) < PosIn(src, fr.index[j])

ProjectsOf(key) ==
    IF key = "raw_data"
    THEN {analysis[key].rows[i].project_id : i \in 1..Len(analysis[key].rows)}
    ELSE IF key = "pivoted_raw_metrics_by_chain"
    THEN {k[1] : k \in analysis[key].index}
    ELSE Range(analysis[key].index)

\* the rows of the caller's table that carry a given flag
RowsFlagged(flag) ==
    SelectSeq(df_data.rows, LAMBDA r :
        df_data.has_is_eligible /\ r.is_eligible = flag)

\* C11: with eligibility_filter, no project flagged ineligible appears in
\* raw_data, in an intermediate table or in final_results
C11_IneligibleDropped ==
    config.eligibility_filter =>
        \A key \in DOMAIN analysis :
            \A i \in 1..Len(RowsFlagged("False")) :
                RowsFlagged("False")[i].project_id \notin ProjectsOf(key)

C11_Witness ==
    /\ Done
    /\ config.eligibility_filter
    /\ Len(RowsFlagged("False")) > 0
    /\ Len(RowsFlagged("True")) > 0
    /\ \E pid \in Range(analysis["final_results"].index) :
           NonZero(analysis["final_results"].weighted_score[pid].num)

\* the rows of the caller's table whose project has no eligibility flag
RowsUnflagged ==
    SelectSeq(df_data.rows, LAMBDA r :
        ~ df_data.has_is_eligible \/ r.is_eligible = "NaN")

\* C12: with eligibility_filter, the rows of a project without a flag are
\* kept in raw_data and run_analysis does not fail on them
C12_AbsentFlagIsEligible ==
    (config.eligibility_filter /\ runs > 0) =>
        /\ Has("raw_data")
        /\ \A i \in 1..Len(RowsUnflagged) :
               RowsUnflagged[i] \in Range(analysis["raw_data"].rows)

\* the intermediate a stage requires: the output of the stage before it
Required(k) ==
    CASE k = 1 -> "raw_data"
      [] k = 2 -> "pivoted_raw_metrics_by_chain"
      [] k = 3 -> "pivoted_raw_metrics_weighted_by_chain"
      [] k = 4 -> "pivoted_metric_variants"
      [] k = 5 -> "normalized_metric_variants"
      [] k = 6 -> "weighted_metric_variants"
      [] k = 7 -> "aggregated_project_scores"

\* the messages that name an intermediate
NamedBy(key) ==
    CASE key = "raw_data" ->
           {"Raw data not found in analysis. Ensure 'raw_data' is set before Step 1."}
      [] key = "pivoted_raw_metrics_by_chain" ->
           {"Pivoted raw metrics not found. Check Step 1."}
      [] key = "pivoted_raw_metrics_weighted_by_chain" ->
           {"Weighted metrics not found. Check Step 2."}
      [] key = "pivoted_metric_variants" ->
           {"Metric variants not computed. Check Step 3."}
      [] key = "normalized_metric_variants" ->
           {"Normalized metric variants not available. Check Step 4."}
      [] key = "weighted_metric_variants" ->
           {"Weighted metric variants not available. Check Step 5."}
      [] key = "aggregated_project_scores" ->
           {"Aggregated project scores not found; final results may be incomplete."}

\* the call of stage k as a step
Called(k) ==
    CASE k = 1 -> CallStage1
      [] k = 2 -> CallStage2
      [] k = 3 -> CallStage3
      [] k = 4 -> CallStage4
      [] k = 5 -> CallStage5
      [] k = 6 -> CallStage6
      [] k = 7 -> CallStage7

\* stage k, called without the output of its predecessor, raises an error
\* that names the missing intermediate and leaves the dictionary as it was
FailsNamingMissing(k) ==
    (Called(k) /\ ~ Has(Required(k))) =>
        /\ pc' = "failed"
        /\ Len(error') >= 2 /\ error'[2] \in NamedBy(Required(k))
        /\ analysis' = analysis

\* C13: every stage, Pivot to Finalizer, invoked while the output of its
\* predecessor is absent fails immediately with an error naming the missing
\* intermediate and writes no entry
C13_MissingStageError == [][\A k \in 1..7 : FailsNamingMissing(k)]_vars

\* the Aggregator called with a method it does not know
InvalidMethodCall(method) ==
    /\ pc = "direct"
    /\ method \notin {"power_mean", "sum"}
    /\ Stage6(method, "direct")

NamesMethod(err, method) ==
    err = <<"ValueError", "Invalid aggregation method: ", method>>

EmptyAfterFilters ==
    LET rows == IF config.eligibility_filter /\ df_data.has_is_eligible
                THEN EligibleRows(df_data).rows ELSE df_data.rows
    IN \A i \in 1..Len(rows) :
           \/ rows[i].metric_name \notin Range(all_metrics(config))
           \/ rows[i].measurement_period \notin Range(periods_list(config))

\* (b) a column of the variant table holds one value only
AllEqualColumn ==
    /\ Has("pivoted_metric_variants")
    /\ \E c \in analysis["pivoted_metric_variants"].columns :
           \A p \in VariantRows : \A q \in VariantRows :
               analysis["pivoted_metric_variants"].val[p][c]
                   = analysis["pivoted_metric_variants"].val[q][c]

\* (c) the scores left by the ceiling sum to zero
ZeroSumScores ==
    /\ Has("final_results")
    /\ \A i \in 1..Len(ScoreColumn) : ~ NonZero(ScoreColumn[i].num)

\* C15: run_analysis does not raise on degenerate data: an input that is
\* empty after the filters, an all-equal variant column, zero-sum scores
C15_NoFailureOnDegenerateData ==
    (runs > 0 /\ (EmptyAfterFilters \/ AllEqualColumn \/ ZeroSumScores))
        => pc # "failed"

\* the weight of the configuration entry whose chain code equals the chain
\* of the row when case is ignored, 1.0 when there is none
CaseInsensitiveWeight(chain) ==
    LET hits == {i \in 1..Len(config.chains) :
                    upper(config.chains[i].name) = upper(chain)}
    IN IF hits = {} THEN One
       ELSE config.chains[CHOOSE i \in hits : \A j \in hits : j <= i].weight

\* C16: every cell of the chain-weighted table is the sum over the chain
\* rows of the project of the pivoted cell times the weight of the chain,
\* chain codes matched case-insensitively, weight 1.0 for an unmapped chain
C16_ChainWeightCaseInsensitive ==
    Has("pivoted_raw_metrics_weighted_by_chain") =>
        LET pv == analysis["pivoted_raw_metrics_by_chain"]
            df == analysis["pivoted_raw_metrics_weighted_by_chain"]
        IN \A pid \in Range(df.index) : \A c \in df.columns :
               LET ks == SetToSeq({k \in pv.index : k[1] = pid})
               IN df.val[pid][c] =
                      SumSkipna([i \in 1..Len(ks) |->
                          RMul(pv.val[ks[i]][c],
                               CaseInsensitiveWeight(ks[i][2]))])

\* the amounts of the observations of one pivot cell, in row order
CellAmounts(k, c) ==
    LET hit == SelectSeq(analysis["raw_data"].rows, LAMBDA r :
                   /\ r.project_id = k[1] /\ r.chain = k[2]
                   /\ r.measurement_period = c[1] /\ r.metric_name = c[2])
    IN [i \in 1..Len(hit) |-> hit[i].amount]

\* C17: a pivoted cell with several observations holds the sum of their
\* amounts
C17_DuplicatesSummed ==
    (Has("pivoted_raw_metrics_by_chain")
     /\ ~ RLt(Zero, config.tvl_minimum)) =>
        LET pv == analysis["pivoted_raw_metrics_by_chain"]
        IN \A k \in pv.index : \A c \in pv.columns :
               Len(CellAmounts(k, c)) > 1 =>
                   pv.val[k][c] = SumSkipna(CellAmounts(k, c))

C17_Witness ==
    /\ Has("pivoted_raw_metrics_by_chain")
    /\ LET pv == analysis["pivoted_raw_metrics_by_chain"]
       IN \E k \in pv.index : \E c \in pv.columns :
              /\ Len(CellAmounts(k, c)) = 2
              /\ NonZero(CellAmounts(k, c)[1])
              /\ NonZero(CellAmounts(k, c)[2])
              /\ pv.val[k][c] = RAdd(CellAmounts(k, c)[1], CellAmounts(k, c)[2])

\* the metrics configured with weight 0, and those of them not TVL-tagged
ZeroWeightMetrics ==
    {config.metrics[i].name : i \in {j \in 1..Len(config.metrics) :
                                        config.metrics[j].weight = Zero}}
UntaggedZeroWeightMetrics == {m \in ZeroWeightMetrics : ~ IsTvlName(m)}

\* the table with the amounts of one metric changed: all set to 0, all
\* raised by one, or those of project 1 raised by one
Changes == {"zero", "raise", "raise1"}
Changed(rows, metric, change) ==
    [i \in 1..Len(rows) |->
        IF rows[i].metric_name # metric THEN rows[i]
        ELSE IF change = "zero" THEN [rows[i] EXCEPT !.amount = Zero]
        ELSE IF change = "raise" \/ rows[i].project_id = 1
        THEN [rows[i] EXCEPT !.amount = RAdd(@, One)]
        ELSE rows[i]]

\* the scores of another run of run_analysis (lines 75-81) on a table
OtherRun(rows) ==
    LET s1 == FilterAndPivot(config, rows)
        s2 == SumAndWeight(config, s1.out)
        s5 == ApplyWeights(config,
                  NormalizeMetricVariants(config,
                      CalculateMetricVariants(config, s2)))
        s6 == AggregateMetricVariants(s5, "power_mean").out
    IN IF s1.err # NoError \/ VariantsKeyError(config, s2) \/ s6.columns = {}
       THEN [failed |-> TRUE]
       ELSE [failed |-> FALSE,
             project_score |-> s6.project_score,
             weighted_score |-> FinalScores(config, s2, s6.index,
                                            s6.project_score)]

\* C18: the variant table has no column of a metric of weight 0, and a run
\* on a table that differs in the amounts of a weight-0 metric without TVL
\* tag gives every project the same project_score and weighted_score
C18_ZeroWeightExcluded ==
    /\ Has("pivoted_metric_variants") =>
           \A c \in analysis["pivoted_metric_variants"].columns :
               c[1] \notin ZeroWeightMetrics
    /\ Done =>
           \A m \in UntaggedZeroWeightMetrics : \A change \in Changes :
               OtherRun(Changed(analysis["raw_data"].rows, m, change))
                   = [failed |-> FALSE,
                      project_score |->
                          analysis["aggregated_project_scores"].project_score,
                      weighted_score |->
                          analysis["final_results"].weighted_score]

C18_Witness ==
    /\ Done
    /\ UntaggedZeroWeightMetrics = {Gas}
    /\ \E i \in 1..Len(df_data.rows) :
           df_data.rows[i].metric_name = Gas /\ NonZero(df_data.rows[i].amount)
    /\ \E p \in Projects : \E q \in Projects :
           /\ NonZero(analysis["final_results"].weighted_score[p].num)
           /\ analysis["final_results"].weighted_score[p].num
                # analysis["final_results"].weighted_score[q].num

\* C19: final_results has exactly the rows of the chain-weighted table, each
\* once
C19_OneRowPerProject ==
    Done =>
        LET fr == analysis["final_results"].index
            src == analysis["pivoted_raw_metrics_weighted_by_chain"].index
        IN /\ Range(fr) = Range(src)
           /\ \A i \in 1..Len(fr) : \A j \in 1..Len(fr) :
                  fr[i] = fr[j] => i = j

C19_Witness ==
    /\ Done
    /\ Len(analysis["final_results"].index) = NumProjects
    /\ \E pid \in Range(analysis["final_results"].index) :
           /\ IsZeroScore(analysis["final_results"].weighted_score[pid])
           /\ NonZero(analysis["aggregated_project_scores"].project_score[pid])

\* the TVL-tagged metrics of the configuration
TvlTagged == {m \in Keys(config.metrics) : IsTvlName(m)}

\* the TVL total of a project for a period: the sum over all its chain rows
\* and all TVL-tagged metrics
TvlTotal(pid, period) ==
    LET hit == SelectSeq(analysis["raw_data"].rows, LAMBDA r :
                   /\ r.project_id = pid /\ r.measurement_period = period
                   /\ r.metric_name \in TvlTagged)
    IN SumSkipna([i \in 1..Len(hit) |-> hit[i].amount])

\* the cell as the pivot builds it from the observations
PivotedAmount(k, c) ==
    IF Len(CellAmounts(k, c)) = 0 THEN Null ELSE SumSkipna(CellAmounts(k, c))

\* C20: with tvl_minimum > 0, the TVL cells of a project for a period are
\* null exactly when its TVL total for the period is below tvl_minimum and
\* otherwise hold the pivoted amount; a total equal to tvl_minimum keeps them
C20_TvlFloor ==
    (Has("pivoted_raw_metrics_by_chain") /\ RLt(Zero, config.tvl_minimum)) =>
        LET pv == analysis["pivoted_raw_metrics_by_chain"]
        IN \A k \in pv.index : \A c \in pv.columns :
               IsTvlName(c[2]) =>
                   pv.val[k][c] =
                       IF RLt(TvlTotal(k[1], c[1]), config.tvl_minimum)
                       THEN Null ELSE PivotedAmount(k, c)

\* C21: the TVL floor changes nothing but the TVL cells of a (project,
\* period) whose TVL total is below tvl_minimum: every cell of a metric that
\* is not TVL-tagged, and every TVL cell of a (project, period) that passes,
\* holds the pivoted amount
C21_FloorFrame ==
    (Has("pivoted_raw_metrics_by_chain") /\ RLt(Zero, config.tvl_minimum)) =>
        LET pv == analysis["pivoted_raw_metrics_by_chain"]
        IN \A k \in pv.index : \A c \in pv.columns :
               ~ (IsTvlName(c[2])
                  /\ RLt(TvlTotal(k[1], c[1]), config.tvl_minimum)) =>
                   pv.val[k][c] = PivotedAmount(k, c)

\* C22: a TVL cell nulled by the floor stays null after the Chain Aggregator
\* and the Variant Deriver: the weighted value of the (project, period,
\* metric) is null and so is the adoption variant of a nulled current cell
C22_NulledStaysNull ==
    (Has("pivoted_raw_metrics_by_chain") /\ RLt(Zero, config.tvl_minimum)) =>
        LET pv == analysis["pivoted_raw_metrics_by_chain"]
            nulled(pid, c) ==
                /\ IsTvlName(c[2])
                /\ RLt(TvlTotal(pid, c[1]), config.tvl_minimum)
                /\ \A k \in pv.index : k[1] = pid => IsNull(pv.val[k][c])
        IN \A pid \in {k[1] : k \in pv.index} : \A c \in pv.columns :
               nulled(pid, c) =>
                   /\ Has("pivoted_raw_metrics_weighted_by_chain") =>
                          IsNull(WeightedCell(pid, c[1], c[2]))
                   /\ (Has("pivoted_metric_variants")
                       /\ c[1] = config.periods.current)
                          => IsNull(VariantCell(pid, c[2], adoption))

\* the non-null cells of a project's row of the weighted table
NonNullCells(pid) ==
    LET df == analysis["weighted_metric_variants"]
        cs == SetToSeq({c \in df.columns : NotNull(df.val[pid][c])})
    IN [i \in 1..Len(cs) |-> df.val[pid][cs[i]]]

RECURSIVE SumOfSquares(_)
SumOfSquares(cells) ==
    IF Len(cells) = 0 THEN Zero
    ELSE RAdd(RMul(Head(cells), Head(cells)), SumOfSquares(Tail(cells)))

\* project_score (held as its square) is the power mean with p = 2 of the
\* non-null cells, null for a row without one
IsPowerMean(score, cells) ==
    IF Len(cells) = 0 THEN IsNull(score)
    ELSE NotNull(score) /\ RMul(score, R(Len(cells))) = SumOfSquares(cells)

\* C23: the Aggregator with method power_mean gives every project
\* sqrt(sum of the squares of its non-null weighted cells / their number),
\* and null when it has no non-null cell
C23_PowerMean ==
    [][(pc = "direct"
        /\ Has("weighted_metric_variants")
        /\ Stage6("power_mean", "direct")) =>
           \A pid \in Range(analysis["weighted_metric_variants"].index) :
               IsPowerMean(analysis'["aggregated_project_scores"]
                               .project_score[pid],
                           NonNullCells(pid))]_vars

\* cells [0.5, null, 0.5] scored 0.5 beside a row of nulls scored null
C23_Witness ==
    /\ Has("aggregated_project_scores")
    /\ LET df == analysis["aggregated_project_scores"]
       IN /\ \A c \in df.columns : IsNull(df.val[1][c])
          /\ IsNull(df.project_score[1])
          /\ \E pid \in Range(df.index) :
                 /\ \A c \in df.columns : df.val[pid][c] = HalfNullHalf[c]
                 /\ df.project_score[pid] = Norm(1, 4)

\* the product metric_weight x variant_weight of a column whose metric and
\* variant are both keys of the configuration
ColumnWeight(c) ==
    LET mw == SelectSeq(config.metrics, LAMBDA it : it.name = c[1])
        vw == SelectSeq(config.metric_variants, LAMBDA it : it.name = c[2])
    IN RMul(mw[Len(mw)].weight, vw[Len(vw)].weight)

IsWeightedColumn(c) ==
    /\ \E i \in 1..Len(config.metrics) : config.metrics[i].name = c[1]
    /\ \E i \in 1..Len(config.metric_variants) :
           config.metric_variants[i].name = c[2]

\* C27: the Weighter multiplies every cell of a (metric, variant) column by
\* metric_weight x variant_weight when both are keys of the configuration
\* and leaves the column untouched otherwise; null cells stay null
C27_Weighter ==
    [][(pc = "direct" /\ Has("normalized_metric_variants")
        /\ Stage5("direct")) =>
           LET df == analysis["normalized_metric_variants"]
               out == analysis'["weighted_metric_variants"]
           IN /\ out.index = df.index
              /\ out.columns = df.columns
              /\ \A pid \in Range(df.index) : \A c \in df.columns :
                     IF IsNull(df.val[pid][c]) THEN IsNull(out.val[pid][c])
                     ELSE IF IsWeightedColumn(c)
                     THEN out.val[pid][c] =
                              RMul(df.val[pid][c], ColumnWeight(c))
                     ELSE out.val[pid][c] = df.val[pid][c]]_vars

\* a weighted table with a scaled cell, an untouched cell of a variant that
\* is not configured, an untouched cell of a metric that is not configured
\* and a null cell
C27_Witness ==
    /\ Has("normalized_metric_variants")
    /\ Has("weighted_metric_variants")
    /\ growth \notin Keys(config.metric_variants)
    /\ LET df == analysis["normalized_metric_variants"]
           out == analysis["weighted_metric_variants"]
       IN /\ df.val[1][<<Tvl, adoption>>] = One
          /\ NotNull(out.val[1][<<Tvl, adoption>>])
          /\ out.val[1][<<Tvl, adoption>>] # One
          /\ out.val[1][<<Tvl, growth>>] = One
          /\ out.val[1][<<Gas, adoption>>] = One
          /\ IsNull(out.val[1][<<Tvl, retention>>])

\* the non-null values of the column handed to _minmax_scale
NonNullValues == SelectSeq(values.values, NotNull)

\* C24: when all non-null values of a column are identical, _minmax_scale
\* gives 1.0 for every non-null value
C24_DegenerateColumn ==
    (scaled.done
     /\ Len(NonNullValues) > 0
     /\ \A i \in 1..Len(NonNullValues) : NonNullValues[i] = NonNullValues[1])
        => \A i \in 1..Len(values.values) :
               NotNull(values.values[i]) => scaled.out[i] = One

\* the column with every value above the cap replaced by the cap, the cap
\* being the percentile of the non-null values
Clipped ==
    LET cap_value == np_percentile(NonNullValues, values.percentile_cap)
    IN [i \in 1..Len(values.values) |->
           IF IsNull(values.values[i]) THEN Null
           ELSE IF RLt(cap_value, values.values[i]) THEN cap_value
           ELSE values.values[i]]

\* C25: with percentile_cap < 100 the non-null values are scaled after
\* every value above the percentile of the non-null values has been
\* replaced by it
C25_PercentileCap ==
    (scaled.done /\ RLt(values.percentile_cap, R(100))
     /\ Len(NonNullValues) > 0) =>
        LET ref == _minmax_scale(SelectSeq(Clipped, NotNull), R(100))
        IN \A i \in 1..Len(values.values) :
               NotNull(values.values[i]) =>
                   scaled.out[i] = ref[NotNullUpTo(values.values, i)]

\* the observations the claim has the Pivot keep: those of a configured
\* metric with nonzero weight or of a configured TVL-tagged metric, in one
\* of the two configured periods
KeptObservations ==
    LET rows == analysis["raw_data"].rows
        metrics == {config.metrics[i].name : i \in
                       {j \in 1..Len(config.metrics) :
                           \/ config.metrics[j].weight # Zero
                           \/ IsTvlName(config.metrics[j].name)}}
    IN {rows[i] : i \in {j \in 1..Len(rows) :
           /\ rows[j].metric_name \in metrics
           /\ rows[j].measurement_period
                  \in {config.periods.current, config.periods.previous}}}

\* C26: the pivot has a column for exactly the (period, metric) pairs and a
\* row for exactly the (project, chain) pairs of the kept observations
C26_PivotKeeps ==
    Has("pivoted_raw_metrics_by_chain") =>
        LET pv == analysis["pivoted_raw_metrics_by_chain"]
        IN /\ pv.columns = {<<r.measurement_period, r.metric_name>> :
                               r \in KeptObservations}
           /\ pv.index = {<<r.project_id, r.chain>> : r \in KeptObservations}

\* the chain-weighted table with the previous-period TVL amounts of a
\* project replaced
WithPreviousTvl(df, pid, amount) ==
    [df EXCEPT !.val[pid] =
        [c \in df.columns |->
            IF c[1] = config.periods.previous /\ IsTvlName(c[2])
            THEN amount ELSE df.val[pid][c]]]

\* the ceiling forces the score of the project to 0
ForcedToZero(df, pid) ==
    /\ tvl_columns(config, df) # {}
    /\ exceeds_max(config, df, SetToSeq(tvl_columns(config, df)), pid)

\* C28: whether the ceiling forces a project's score to 0 does not depend
\* on its previous-period TVL amounts, whatever the two period labels
C28_PreviousTvlNoInfluence ==
    (Done /\ RLt(Zero, config.tvl_maximum)) =>
        LET df == analysis["pivoted_raw_metrics_weighted_by_chain"]
        IN \A pid \in Range(df.index) : \A a \in 0..MaxAmount :
               ForcedToZero(WithPreviousTvl(df, pid, R(a)), pid)
                   = ForcedToZero(df, pid)

\* the most recent call failed inside the eligibility filter
FailedInFilter == pc = "failed" /\ error = <<"KeyError", "is_eligible">>

\* C29: after a call that failed, the dictionary holds no final_results,
\* and after a call that failed inside the eligibility filter, which stores
\* nothing itself, it holds no entry at all
C29_OnlyLatestCall ==
    /\ pc = "failed" => ~ Has("final_results")
    /\ FailedInFilter => DOMAIN analysis = {}

\* a stage of a run is about to act
InStage == pc \in {"step1", "step2", "step3", "step4", "step5", "step6",
                   "step7"}

AllEntries == {"raw_data", "pivoted_raw_metrics_by_chain",
               "pivoted_raw_metrics_weighted_by_chain",
               "pivoted_metric_variants", "normalized_metric_variants",
               "weighted_metric_variants", "aggregated_project_scores",
               "final_results"}

\* C30: a stage leaves every entry stored before it, the table handed to
\* run_analysis and the configuration as they are
C30_StagesKeepEarlierEntries ==
    [][InStage =>
          /\ \A k \in DOMAIN analysis :
                 k \in DOMAIN analysis' /\ analysis'[k] = analysis[k]
          /\ df_data' = df_data
          /\ config' = config]_vars

\* a finished run whose dictionary holds all entries, the raw data being the
\* table of the call and the weighted variants still without a score column
C30_Witness ==
    /\ Done
    /\ DOMAIN analysis = AllEntries
    /\ analysis["raw_data"] = df_data
    /\ analysis["weighted_metric_variants"]
           # analysis["aggregated_project_scores"]
    /\ \E pid \in Range(analysis["aggregated_project_scores"].index) :
           NonZero(analysis["aggregated_project_scores"].project_score[pid])

====
